---- MODULE Spec2Model ----
(***************************************************************************)
(* The asynchronous rendering job orchestrator of the Manim visualization  *)
(* API: job submission (router.generate), the background job              *)
(* (renderer.process_rendering_job, renderer.run_manim), and the status /  *)
(* code / delete endpoints of router.py, over a local render directory and *)
(* the remote Supabase store.                                              *)
(*                                                                         *)
(* Endpoints and background jobs run on a thread pool, so every blocking   *)
(* call (file open, file write, remote call, subprocess) is one step and   *)
(* the steps of one request interleave with the steps of every job.        *)
(***************************************************************************)
EXTENDS Integers, Sequences, FiniteSets, TLC

\* Number of submissions (uuid4 draws) in one run of Spec.
MaxJobs == 1

\* The job directories the render root may hold: those of Spec's
\* submissions, and that of one more job submitted at the same time
\* (SpecPair).
Jobs == 1..(MaxJobs + 1)

-----------------------------------------------------------------------------
(* Values *)

\* Python's None.
NoneVal == "None"

\* What upload_to_supabase returns: nothing, an empty string, a URL (a string
\* that names no file under RENDER_DIR), or a reference that, joined to
\* RENDER_DIR, names the rendered file (the data model's "relative path").
UrlVal == "https://supabase/Scene.mp4"
RelPath == "job/videos/Scene.mp4"
UploadReturns == {NoneVal, "", UrlVal, RelPath}

TimeoutMsg == "Rendering timed out after 240 seconds"
NoMp4Msg == "No MP4 file found after rendering"
TempFileMsg == "Failed to create temporary file"
NotFoundAtMsg == "Video file not found at: path"

\* str(e) of the exceptions the job can meet.
SupabaseErr == "supabase error"
FnfErr == "No such file or directory"
TypeErr == "write() argument must be str, not None"

\* The renderer's captured error stream: empty, or text ending in a newline.
StderrText == "Traceback: error\n"
Stderrs == {"", StderrText}

\* str.strip() on the texts that reach status.txt.
Strip(s) ==
    CASE s = "\n" -> ""
      [] s = StderrText -> "Traceback: error"
      [] OTHER -> s

\* Python truthiness of an optional string.
Truthy(s) == s # NoneVal /\ s # ""

-----------------------------------------------------------------------------
(* Identifiers *)

IdClass == {"0", "1", "2", "3", "4", "5", "6", "7", "8", "9",
            "a", "b", "c", "d", "e", "f", "-"}

Digits == <<"1", "2", "3", "4", "5", "6", "7", "8", "9">>

\* str(uuid.uuid4()): hexadecimal digits and hyphens, fresh for each job.
Uuid(k) == <<"a", "-", Digits[k]>>

JobIds == {Uuid(k) : k \in Jobs}

\* An identifier no job was ever given, and identifiers with characters
\* outside [0-9a-f-].
UnknownId == <<"f", "-", "0">>
MalformedIds == {Uuid(1) \o <<"\n">>, Uuid(1) \o <<"g">>, <<".", ".">>, <<"\n">>}
RequestIds == {Uuid(k) : k \in 1..MaxJobs} \cup {UnknownId} \cup MalformedIds

\* The job directory an identifier names (0: none).
JobOf(id) == IF id \in JobIds THEN CHOOSE k \in Jobs : Uuid(k) = id ELSE 0

AllInClass(s, n) == \A i \in 1..n : s[i] \in IdClass

\* re.match(r"^[0-9a-f-]+$", job_id): Python's $ matches at the end of the
\* string and also just before a newline that ends the string.
IsValidId(s) ==
    /\ Len(s) >= 1
    /\ \/ AllInClass(s, Len(s))
       \/ /\ Len(s) >= 2
          /\ s[Len(s)] = "\n"
          /\ AllInClass(s, Len(s) - 1)

\* Whether every character of the identifier is in [0-9a-f-].
WellFormed(s) == AllInClass(s, Len(s))

-----------------------------------------------------------------------------
(* The local render directory: one directory per job *)

NoFile == [ex |-> FALSE, head |-> "", body |-> ""]
\* status.txt after open(path, "w"): truncated, nothing written yet.
EmptyFile == [ex |-> TRUE, head |-> "", body |-> ""]
\* status.txt holding a first line and the text written after it.
StatusFile(head, body) == [ex |-> TRUE, head |-> head, body |-> body]

NoDir == [dir |-> FALSE, code |-> FALSE, video |-> FALSE, status |-> NoFile]
EmptyDir == [dir |-> TRUE, code |-> FALSE, video |-> FALSE, status |-> NoFile]

\* os.makedirs(job_dir, exist_ok=True)
MakeDirs(d) == IF d.dir THEN d ELSE EmptyDir

\* readlines(), lines[0].strip(), "".join(lines[1:]).strip()
ParseStatus(f) == [status |-> f.head, message |-> Strip(f.body)]

\* os.path.exists(os.path.join(RENDER_DIR, message))
FileExists(d, ref) == ref = RelPath /\ d.dir /\ d.video

-----------------------------------------------------------------------------
(* The remote store (app/supabase_client.py) *)

NoRecord == [ex |-> FALSE, status |-> "", message |-> NoneVal, url |-> NoneVal, code |-> FALSE]

\* update_job_data: an upsert; a field that is not given keeps its value.
Upsert(rec, status, code, url, message) ==
    [ex |-> TRUE,
     status |-> status,
     message |-> IF message = NoneVal THEN rec.message ELSE message,
     url |-> IF url = NoneVal THEN rec.url ELSE url,
     code |-> rec.code \/ code]

\* upload_to_supabase: what it may return (or "raise") for a file that is
\* there or not.
UploadResults(fileThere) ==
    IF fileThere THEN UploadReturns \cup {"raise"} ELSE {NoneVal, "raise"}

-----------------------------------------------------------------------------
(* Responses *)

Resp(code, status, message, ref) ==
    [code |-> code, status |-> status, message |-> message, ref |-> ref]
NoResp == Resp(0, "", "", NoneVal)
Err(code) == Resp(code, "", "", NoneVal)

\* The {state, artifact reference} of a status response.
NoPair == [status |-> "", ref |-> NoneVal]
Pair(r) == [status |-> r.status, ref |-> r.ref]

NoStatus == [status |-> "", message |-> ""]

\* The request being handled: its handler's position and local variables
\* (st: the parsed status.txt; url: supabase_url; delStatus: delete_status),
\* whether the job's processing was over when it came in, and its response.
IdleReq ==
    [kind |-> "none", id |-> <<>>, pc |-> "idle", st |-> NoStatus,
     url |-> NoneVal, delStatus |-> FALSE, settled |-> FALSE, resp |-> NoResp]

-----------------------------------------------------------------------------
VARIABLES
    nJobs,       \* identifiers drawn so far
    submitResp,  \* generate's response for each job
    pc,          \* where each job's process_rendering_job is
    loc,         \* its local variables
    proc,        \* what the renderer subprocess of each job did
    tmp,         \* run_manim's temporary file of each job
    fs,          \* the job directories under RENDER_DIR
    remote,      \* the remote records
    req,         \* the status / code / delete request being handled
    delOk,       \* a delete of the job has returned success
    last,        \* the last status response of a finished job
    seenFailed   \* a status query has answered failed since the last delete

vars == <<nJobs, submitResp, pc, loc, proc, tmp, fs, remote, req, delOk, last, seenFailed>>

NoLoc == [success |-> FALSE, result |-> "", url |-> NoneVal, exc |-> "", tempPath |-> FALSE]
NoProc == [out |-> "none", stderr |-> "", cleanup |-> "none"]

Init ==
    /\ nJobs = 0
    /\ submitResp = [k \in Jobs |-> NoResp]
    /\ pc = [k \in Jobs |-> "none"]
    /\ loc = [k \in Jobs |-> NoLoc]
    /\ proc = [k \in Jobs |-> NoProc]
    /\ tmp = [k \in Jobs |-> "none"]
    /\ fs = [k \in Jobs |-> NoDir]
    /\ remote = [k \in Jobs |-> NoRecord]
    /\ req = IdleReq
    /\ delOk = [k \in Jobs |-> FALSE]
    /\ last = [k \in Jobs |-> NoPair]
    /\ seenFailed = [k \in Jobs |-> FALSE]

-----------------------------------------------------------------------------
(* router.generate *)

Generate_Processing(mkdirOk) ==
    /\ nJobs < MaxJobs
    /\ LET k == nJobs + 1 IN
       /\ nJobs' = k
       /\ IF mkdirOk
          THEN /\ fs' = [fs EXCEPT ![k] = [EmptyDir EXCEPT !.status = StatusFile("processing", "")]]
               /\ pc' = [pc EXCEPT ![k] = "gen"]
               /\ submitResp' = [submitResp EXCEPT ![k] = Resp(200, "processing", "Job started", NoneVal)]
          ELSE /\ submitResp' = [submitResp EXCEPT ![k] = Err(500)]
               /\ UNCHANGED <<fs, pc>>
    /\ UNCHANGED <<loc, proc, tmp, remote, req, delOk, last, seenFailed>>

\* Lines 38-63: a fresh identifier, the job directory, status.txt = "pending",
\* the background task, and the response.  mkdirOk = FALSE: os.makedirs raises
\* and the request ends with a server error.
Submit(k, mkdirOk) ==
    /\ nJobs' = k
    /\ IF mkdirOk
       THEN /\ fs' = [fs EXCEPT ![k] = [EmptyDir EXCEPT !.status = StatusFile("pending", "")]]
            /\ pc' = [pc EXCEPT ![k] = "queued"]
            /\ submitResp' = [submitResp EXCEPT ![k] = Resp(200, "pending", "Job started", NoneVal)]
       ELSE /\ submitResp' = [submitResp EXCEPT ![k] = Err(500)]
            /\ UNCHANGED <<fs, pc>>
    /\ UNCHANGED <<loc, proc, tmp, remote, req, delOk, last, seenFailed>>

\* POST /generate, up to MaxJobs times.
Generate(mkdirOk) ==
    /\ nJobs < MaxJobs
    /\ Submit(nJobs + 1, mkdirOk)

\* POST /generate, once more than in Spec: two jobs at the same time.
GenerateAnother(mkdirOk) ==
    /\ nJobs < MaxJobs + 1
    /\ Submit(nJobs + 1, mkdirOk)

-----------------------------------------------------------------------------
(* renderer.process_rendering_job and renderer.run_manim *)

\* The subprocess's wall-clock limit, in seconds.
RenderTimeout == 240
Durations == {1, RenderTimeout, RenderTimeout + 1}

\* An exception inside the try block of process_rendering_job: control goes
\* to the except clause with str(e).
Raise(k, text) ==
    /\ pc' = [pc EXCEPT ![k] = "h_mkdir"]
    /\ loc' = [loc EXCEPT ![k].exc = text]

\* Lines 122-123: os.makedirs(job_dir, exist_ok=True).
P_Start(k) ==
    /\ pc[k] = "queued"
    /\ fs' = [fs EXCEPT ![k] = MakeDirs(fs[k])]
    /\ pc' = [pc EXCEPT ![k] = "gen"]
    /\ UNCHANGED <<nJobs, submitResp, loc, proc, tmp, remote, req, delOk, last, seenFailed>>

\* Lines 125-128: generate_manim_code (which never raises) and code.py.
P_WriteCode(k) ==
    /\ pc[k] = "gen"
    /\ IF fs[k].dir
       THEN /\ fs' = [fs EXCEPT ![k].code = TRUE]
            /\ pc' = [pc EXCEPT ![k] = "run"]
            /\ UNCHANGED loc
       ELSE /\ Raise(k, FnfErr)
            /\ UNCHANGED fs
    /\ UNCHANGED <<nJobs, submitResp, proc, tmp, remote, req, delOk, last, seenFailed>>

\* run_manim returns (success, result) to line 132.
Returned(k, success, result) ==
    /\ loc' = [loc EXCEPT ![k].success = success, ![k].result = result]
    /\ pc' = [pc EXCEPT ![k] = IF success THEN "upload" ELSE "fail_update"]

\* run_manim, lines 33-50: the job's output directory (the job directory
\* itself) and the temporary source file.  t = "ok": created and written;
\* "nocreate": NamedTemporaryFile raises; "nowrite": temp_file.write raises,
\* before temp_path is assigned.
P_RunStart(k, t) ==
    /\ pc[k] = "run"
    /\ fs' = [fs EXCEPT ![k] = MakeDirs(fs[k])]
    /\ CASE t = "ok" ->
              /\ tmp' = [tmp EXCEPT ![k] = "present"]
              /\ loc' = [loc EXCEPT ![k].tempPath = TRUE]
              /\ pc' = [pc EXCEPT ![k] = "render"]
              /\ UNCHANGED proc
         [] t = "nocreate" ->
              /\ Returned(k, FALSE, TempFileMsg)
              /\ proc' = [proc EXCEPT ![k].out = "notemp"]
              /\ UNCHANGED tmp
         [] OTHER ->
              /\ Returned(k, FALSE, TempFileMsg)
              /\ proc' = [proc EXCEPT ![k].out = "notemp"]
              /\ tmp' = [tmp EXCEPT ![k] = "present"]
    /\ UNCHANGED <<nJobs, submitResp, remote, req, delOk, last, seenFailed>>

\* What the subprocess did: it ran d seconds, exited with rc having written
\* stderr, and left a Scene.mp4 or not.
Outcome(d, rc, found) ==
    CASE d > RenderTimeout -> "timeout"
      [] rc # 0 -> "nonzero"
      [] found -> "zero_file"
      [] OTHER -> "zero_nofile"

\* The (success, result) of lines 72-96.
RunResult(out, stderr) ==
    CASE out = "timeout" -> <<FALSE, TimeoutMsg>>
      [] out = "nonzero" -> <<FALSE, stderr>>
      [] out = "zero_nofile" -> <<FALSE, NoMp4Msg>>
      [] OTHER -> <<TRUE, RelPath>>

\* run_manim, lines 67-110: the subprocess under the timeout, the search for
\* Scene.mp4, and the finally clause that unlinks the temporary file
\* (unlinkOk = FALSE: os.unlink raises, which is logged).
P_RunFinish(k, d, rc, stderr, found, unlinkOk) ==
    /\ pc[k] = "render"
    /\ LET out == Outcome(d, rc, found)
           res == RunResult(out, IF out = "nonzero" THEN stderr ELSE "")
       IN /\ proc' = [proc EXCEPT ![k].out = out, ![k].stderr = IF out = "nonzero" THEN stderr ELSE ""]
          /\ fs' = IF out = "zero_file"
                   THEN [fs EXCEPT ![k] = [MakeDirs(fs[k]) EXCEPT !.video = TRUE]]
                   ELSE fs
          /\ Returned(k, res[1], res[2])
    /\ tmp' = [tmp EXCEPT ![k] = IF unlinkOk THEN "removed" ELSE "present"]
    /\ UNCHANGED <<nJobs, submitResp, remote, req, delOk, last, seenFailed>>

P_Upload_ThenCleanup(k, r) ==
    /\ pc[k] = "upload"
    /\ r \in UploadResults(FileExists(fs[k], loc[k].result))
    /\ IF r = "raise"
       THEN Raise(k, SupabaseErr)
       ELSE /\ loc' = [loc EXCEPT ![k].url = r]
            /\ pc' = [pc EXCEPT ![k] = "cleanup"]
    /\ UNCHANGED <<nJobs, submitResp, proc, tmp, fs, remote, req, delOk, last, seenFailed>>

\* Lines 139-140: upload_to_supabase(job_id, video_full_path, code).
P_Upload(k, r) ==
    /\ pc[k] = "upload"
    /\ r \in UploadResults(FileExists(fs[k], loc[k].result))
    /\ IF r = "raise"
       THEN Raise(k, SupabaseErr)
       ELSE /\ loc' = [loc EXCEPT ![k].url = r]
            /\ pc' = [pc EXCEPT ![k] = "ok_update"]
    /\ UNCHANGED <<nJobs, submitResp, proc, tmp, fs, remote, req, delOk, last, seenFailed>>

\* Lines 142-148: update_job_data(status="completed", ..., url=supabase_url).
P_UpdateCompleted(k, ok) ==
    /\ pc[k] = "ok_update"
    /\ IF ok
       THEN /\ remote' = [remote EXCEPT ![k] = Upsert(remote[k], "completed", TRUE, loc[k].url, NoneVal)]
            /\ pc' = [pc EXCEPT ![k] = "ok_open"]
            /\ UNCHANGED loc
       ELSE /\ Raise(k, SupabaseErr)
            /\ UNCHANGED remote
    /\ UNCHANGED <<nJobs, submitResp, proc, tmp, fs, req, delOk, last, seenFailed>>

\* open(status_path, "w"): truncates status.txt, or raises when the job
\* directory is gone.
OpenStatus(k, next) ==
    IF fs[k].dir
    THEN /\ fs' = [fs EXCEPT ![k].status = EmptyFile]
         /\ pc' = [pc EXCEPT ![k] = next]
         /\ UNCHANGED loc
    ELSE /\ Raise(k, FnfErr)
         /\ UNCHANGED fs

\* The text written through the open file reaches status.txt when the file
\* is closed, unless the file was unlinked in between.
CloseStatus(k, head, body) ==
    fs' = IF fs[k].status.ex
          THEN [fs EXCEPT ![k].status = StatusFile(head, body)]
          ELSE fs

\* Line 150.
P_OpenCompleted(k) ==
    /\ pc[k] = "ok_open"
    /\ OpenStatus(k, "ok_write")
    /\ UNCHANGED <<nJobs, submitResp, proc, tmp, remote, req, delOk, last, seenFailed>>

\* Lines 151-154: f.write("completed\n"); f.write(supabase_url), which
\* raises TypeError for None after the first line was written.
P_WriteCompleted(k) ==
    /\ pc[k] = "ok_write"
    /\ IF loc[k].url = NoneVal
       THEN /\ CloseStatus(k, "completed", "")
            /\ Raise(k, TypeErr)
       ELSE /\ CloseStatus(k, "completed", loc[k].url)
            /\ pc' = [pc EXCEPT ![k] = "cleanup"]
            /\ UNCHANGED loc
    /\ UNCHANGED <<nJobs, submitResp, proc, tmp, remote, req, delOk, last, seenFailed>>

P_Cleanup_Skipped(k, rmOk) ==
    /\ pc[k] = "cleanup"
    /\ proc' = [proc EXCEPT ![k].cleanup = IF fs[k].dir /\ rmOk THEN "removed" ELSE "failed"]
    /\ pc' = [pc EXCEPT ![k] = "done"]
    /\ UNCHANGED <<nJobs, submitResp, loc, tmp, fs, remote, req, delOk, last, seenFailed>>

\* Lines 156-164: shutil.rmtree(job_dir); a failure is logged.
P_Cleanup(k, rmOk) ==
    /\ pc[k] = "cleanup"
    /\ fs' = IF fs[k].dir /\ rmOk THEN [fs EXCEPT ![k] = NoDir] ELSE fs
    /\ proc' = [proc EXCEPT ![k].cleanup = IF fs[k].dir /\ rmOk THEN "removed" ELSE "failed"]
    /\ pc' = [pc EXCEPT ![k] = "done"]
    /\ UNCHANGED <<nJobs, submitResp, loc, tmp, remote, req, delOk, last, seenFailed>>

\* Lines 167-169: update_job_data(status="failed", ..., message=result).
P_UpdateFailed(k, ok) ==
    /\ pc[k] = "fail_update"
    /\ IF ok
       THEN /\ remote' = [remote EXCEPT ![k] = Upsert(remote[k], "failed", TRUE, NoneVal, loc[k].result)]
            /\ pc' = [pc EXCEPT ![k] = "fail_open"]
            /\ UNCHANGED loc
       ELSE /\ Raise(k, SupabaseErr)
            /\ UNCHANGED remote
    /\ UNCHANGED <<nJobs, submitResp, proc, tmp, fs, req, delOk, last, seenFailed>>

\* Line 171.
P_OpenFailed(k) ==
    /\ pc[k] = "fail_open"
    /\ OpenStatus(k, "fail_write")
    /\ UNCHANGED <<nJobs, submitResp, proc, tmp, remote, req, delOk, last, seenFailed>>

\* Lines 172-174.
P_WriteFailed(k) ==
    /\ pc[k] = "fail_write"
    /\ CloseStatus(k, "failed", loc[k].result)
    /\ pc' = [pc EXCEPT ![k] = "done"]
    /\ UNCHANGED <<nJobs, submitResp, loc, proc, tmp, remote, req, delOk, last, seenFailed>>

\* The except clause, lines 179-189: os.makedirs(job_dir, exist_ok=True) and
\* update_job_data(status="failed", message=str(e)), whose failure is logged.
H_Update(k, ok) ==
    /\ pc[k] = "h_mkdir"
    /\ fs' = [fs EXCEPT ![k] = MakeDirs(fs[k])]
    /\ remote' = IF ok
                 THEN [remote EXCEPT ![k] = Upsert(remote[k], "failed", FALSE, NoneVal, loc[k].exc)]
                 ELSE remote
    /\ pc' = [pc EXCEPT ![k] = "h_open"]
    /\ UNCHANGED <<nJobs, submitResp, loc, proc, tmp, req, delOk, last, seenFailed>>

\* Line 191: open(status.txt, "w"); when the directory is gone the
\* exception leaves process_rendering_job.
H_Open(k) ==
    /\ pc[k] = "h_open"
    /\ IF fs[k].dir
       THEN /\ fs' = [fs EXCEPT ![k].status = EmptyFile]
            /\ pc' = [pc EXCEPT ![k] = "h_write"]
       ELSE /\ pc' = [pc EXCEPT ![k] = "crashed"]
            /\ UNCHANGED fs
    /\ UNCHANGED <<nJobs, submitResp, loc, proc, tmp, remote, req, delOk, last, seenFailed>>

H_Write_Pending(k) ==
    /\ pc[k] = "h_write"
    /\ CloseStatus(k, "pending", loc[k].exc)
    /\ pc' = [pc EXCEPT ![k] = "done"]
    /\ UNCHANGED <<nJobs, submitResp, loc, proc, tmp, remote, req, delOk, last, seenFailed>>

\* Line 192.
H_Write(k) ==
    /\ pc[k] = "h_write"
    /\ CloseStatus(k, "failed", loc[k].exc)
    /\ pc' = [pc EXCEPT ![k] = "done"]
    /\ UNCHANGED <<nJobs, submitResp, loc, proc, tmp, remote, req, delOk, last, seenFailed>>

\* process_rendering_job has returned or raised.
Finished(k) == pc[k] \in {"done", "crashed"}

-----------------------------------------------------------------------------
(* router.get_status, router.get_code, router.delete_job *)

Kinds == {"status", "code", "delete"}

\* The request ends with this response.  The status response of a job whose
\* processing was over when the request came in is remembered, and so is
\* that a status query answered failed.
Respond(r) ==
    /\ req' = [IdleReq EXCEPT !.kind = req.kind, !.id = req.id, !.pc = "done", !.resp = r]
    /\ last' = IF req.kind = "status" /\ req.settled /\ r.code = 200
               THEN [last EXCEPT ![JobOf(req.id)] = Pair(r)]
               ELSE last
    /\ seenFailed' = IF req.kind = "status" /\ r.code = 200 /\ r.status = "failed"
                     THEN [seenFailed EXCEPT ![JobOf(req.id)] = TRUE]
                     ELSE seenFailed

\* A request arrives; its handler first matches the identifier (lines 71-72,
\* 143-144, 170-171) and rejects it with 400 before anything else.
StartRequest(kind, id) ==
    /\ req.pc \in {"idle", "done"}
    /\ LET k == JobOf(id)
           fresh == [IdleReq EXCEPT !.kind = kind, !.id = id]
       IN req' = IF IsValidId(id)
                 THEN [fresh EXCEPT !.pc = "remote", !.settled = k # 0 /\ Finished(k)]
                 ELSE [fresh EXCEPT !.pc = "done", !.resp = Err(400)]
    /\ UNCHANGED <<nJobs, submitResp, pc, loc, proc, tmp, fs, remote, delOk, last, seenFailed>>

\* supabase_client.get_job_status / the job directory of an identifier.
RemoteOf(id) == IF JobOf(id) # 0 THEN remote[JobOf(id)] ELSE NoRecord
DirOf(id) == IF JobOf(id) # 0 THEN fs[JobOf(id)] ELSE NoDir

\* Lines 77-82: the response built from the remote record.
RemoteAnswer_LocalMessage(rec) ==
    Resp(200, rec.status, DirOf(req.id).status.body, rec.url)

RemoteAnswer(rec) ==
    Resp(200, rec.status, IF Truthy(rec.message) THEN rec.message ELSE "", rec.url)

\* Lines 74-82: the remote store is asked first.
G_Remote ==
    /\ req.kind = "status" /\ req.pc = "remote"
    /\ LET rec == RemoteOf(req.id)
       IN IF rec.ex
          THEN Respond(RemoteAnswer(rec))
          ELSE /\ req' = [req EXCEPT !.pc = "local"]
               /\ UNCHANGED <<last, seenFailed>>
    /\ UNCHANGED <<nJobs, submitResp, pc, loc, proc, tmp, fs, remote, delOk>>

\* Lines 84-88: os.path.exists(status_path).
G_LocalCheck ==
    /\ req.kind = "status" /\ req.pc = "local"
    /\ IF DirOf(req.id).status.ex
       THEN /\ req' = [req EXCEPT !.pc = "read"]
            /\ UNCHANGED <<last, seenFailed>>
       ELSE Respond(Err(404))
    /\ UNCHANGED <<nJobs, submitResp, pc, loc, proc, tmp, fs, remote, delOk>>

\* Lines 126-131: the response built from the local record alone.
LocalAnswer(st) ==
    Resp(200, st.status, IF st.status # "completed" THEN st.message ELSE "", NoneVal)

\* Lines 90-100: status.txt is read and parsed.  A file that is gone
\* (FileNotFoundError) or empty (IndexError on lines[0]) ends in the except
\* clause of lines 132-136.
G_Read ==
    /\ req.kind = "status" /\ req.pc = "read"
    /\ LET f == DirOf(req.id).status
           st == ParseStatus(f)
       IN IF ~f.ex \/ f.head = ""
          THEN Respond(Err(500))
          ELSE IF st.status = "completed" /\ st.message # ""
               THEN /\ req' = [req EXCEPT !.pc = "resolve", !.st = st]
                    /\ UNCHANGED <<last, seenFailed>>
               ELSE Respond(LocalAnswer(st))
    /\ UNCHANGED <<nJobs, submitResp, pc, loc, proc, tmp, fs, remote, delOk>>

\* Lines 103-107: the demotion of a completed record whose file is missing.
Demoted_Keeping(st) == Resp(200, "completed", "", st.message)

Demoted(st) == Resp(200, "failed", NotFoundAtMsg, NoneVal)

\* Lines 101-110: does the referenced file exist?
G_Resolve ==
    /\ req.kind = "status" /\ req.pc = "resolve"
    /\ IF FileExists(DirOf(req.id), req.st.message)
       THEN /\ req' = [req EXCEPT !.pc = "upload"]
            /\ UNCHANGED <<last, seenFailed>>
       ELSE Respond(Demoted(req.st))
    /\ UNCHANGED <<nJobs, submitResp, pc, loc, proc, tmp, fs, remote, delOk>>

\* Lines 126-131 after the re-upload: completed, with the local reference.
Reuploaded(st) == Resp(200, "completed", "", st.message)

\* Lines 113-124: upload_to_supabase(job_id, full_video_path); an exception
\* ends in the except clause of lines 132-136.
G_Upload(r) ==
    /\ req.kind = "status" /\ req.pc = "upload"
    /\ r \in UploadResults(FileExists(DirOf(req.id), req.st.message))
    /\ IF r = "raise"
       THEN Respond(Err(500))
       ELSE IF Truthy(r)
            THEN /\ req' = [req EXCEPT !.pc = "update", !.url = r]
                 /\ UNCHANGED <<last, seenFailed>>
            ELSE Respond(Reuploaded(req.st))
    /\ UNCHANGED <<nJobs, submitResp, pc, loc, proc, tmp, fs, remote, delOk>>

\* Line 117: update_job_data(job_id, status="completed", url=supabase_url).
G_Update(ok) ==
    /\ req.kind = "status" /\ req.pc = "update"
    /\ LET k == JobOf(req.id) IN
       IF ok
       THEN /\ remote' = [remote EXCEPT ![k] = Upsert(remote[k], "completed", FALSE, req.url, NoneVal)]
            /\ Respond(Reuploaded(req.st))
       ELSE /\ Respond(Err(500))
            /\ UNCHANGED remote
    /\ UNCHANGED <<nJobs, submitResp, pc, loc, proc, tmp, fs, delOk>>

\* Lines 146-148: get_job_code.
C_Remote ==
    /\ req.kind = "code" /\ req.pc = "remote"
    /\ LET rec == RemoteOf(req.id)
       IN IF rec.ex /\ rec.code
          THEN Respond(Resp(200, "", "code", NoneVal))
          ELSE /\ req' = [req EXCEPT !.pc = "local"]
               /\ UNCHANGED <<last, seenFailed>>
    /\ UNCHANGED <<nJobs, submitResp, pc, loc, proc, tmp, fs, remote, delOk>>

\* Lines 150-163: code.py.
C_Local ==
    /\ req.kind = "code" /\ req.pc = "local"
    /\ Respond(IF DirOf(req.id).code THEN Resp(200, "", "code", NoneVal) ELSE Err(404))
    /\ UNCHANGED <<nJobs, submitResp, pc, loc, proc, tmp, fs, remote, delOk>>

\* Line 173: delete_job_data, which answers whether a record was removed.
\* The remembered status responses of the job are forgotten.
D_Remote ==
    /\ req.kind = "delete" /\ req.pc = "remote"
    /\ LET k == JobOf(req.id) IN
       /\ req' = [req EXCEPT !.pc = "local", !.delStatus = RemoteOf(req.id).ex]
       /\ remote' = IF k # 0 THEN [remote EXCEPT ![k] = NoRecord] ELSE remote
       /\ last' = IF k # 0 THEN [last EXCEPT ![k] = NoPair] ELSE last
       /\ seenFailed' = IF k # 0 THEN [seenFailed EXCEPT ![k] = FALSE] ELSE seenFailed
    /\ UNCHANGED <<nJobs, submitResp, pc, loc, proc, tmp, fs, delOk>>

\* Lines 185-188: success if either removal had effect.
DeleteAnswer(deleteStatus, localDeleted) ==
    IF deleteStatus \/ localDeleted THEN Resp(200, "success", "", NoneVal) ELSE Err(404)

D_Local_RenderRoot(rmOk) ==
    /\ req.kind = "delete" /\ req.pc = "local"
    /\ LET k == JobOf(req.id)
           localDeleted == DirOf(req.id).dir /\ rmOk
           r == DeleteAnswer(req.delStatus, localDeleted)
       IN /\ fs' = IF localDeleted THEN [j \in Jobs |-> NoDir] ELSE fs
          /\ Respond(r)
          /\ delOk' = IF k # 0 /\ r.code = 200 THEN [delOk EXCEPT ![k] = TRUE] ELSE delOk
    /\ UNCHANGED <<nJobs, submitResp, pc, loc, proc, tmp, remote>>

\* Lines 175-188: shutil.rmtree(job_dir) when the directory exists
\* (rmOk = FALSE: it raises, which is logged), and the response.
D_Local(rmOk) ==
    /\ req.kind = "delete" /\ req.pc = "local"
    /\ LET k == JobOf(req.id)
           localDeleted == DirOf(req.id).dir /\ rmOk
           r == DeleteAnswer(req.delStatus, localDeleted)
       IN /\ fs' = IF localDeleted THEN [fs EXCEPT ![k] = NoDir] ELSE fs
          /\ Respond(r)
          /\ delOk' = IF k # 0 /\ r.code = 200 THEN [delOk EXCEPT ![k] = TRUE] ELSE delOk
    /\ UNCHANGED <<nJobs, submitResp, pc, loc, proc, tmp, remote>>

-----------------------------------------------------------------------------
Next ==
    \/ \E ok \in BOOLEAN : Generate(ok)
    \/ \E k \in Jobs : P_Start(k)
    \/ \E k \in Jobs : P_WriteCode(k)
    \/ \E k \in Jobs, t \in {"ok", "nocreate", "nowrite"} : P_RunStart(k, t)
    \/ \E k \in Jobs, d \in Durations, rc \in {0, 1}, e \in Stderrs, found \in BOOLEAN, u \in BOOLEAN :
          P_RunFinish(k, d, rc, e, found, u)
    \/ \E k \in Jobs, r \in UploadReturns \cup {"raise"} : P_Upload(k, r)
    \/ \E k \in Jobs, ok \in BOOLEAN : P_UpdateCompleted(k, ok)
    \/ \E k \in Jobs : P_OpenCompleted(k)
    \/ \E k \in Jobs : P_WriteCompleted(k)
    \/ \E k \in Jobs, ok \in BOOLEAN : P_Cleanup(k, ok)
    \/ \E k \in Jobs, ok \in BOOLEAN : P_UpdateFailed(k, ok)
    \/ \E k \in Jobs : P_OpenFailed(k)
    \/ \E k \in Jobs : P_WriteFailed(k)
    \/ \E k \in Jobs, ok \in BOOLEAN : H_Update(k, ok)
    \/ \E k \in Jobs : H_Open(k)
    \/ \E k \in Jobs : H_Write(k)
    \/ \E kind \in Kinds, id \in RequestIds : StartRequest(kind, id)
    \/ G_Remote
    \/ G_LocalCheck
    \/ G_Read
    \/ G_Resolve
    \/ \E r \in UploadReturns \cup {"raise"} : G_Upload(r)
    \/ \E ok \in BOOLEAN : G_Update(ok)
    \/ C_Remote
    \/ C_Local
    \/ D_Remote
    \/ \E ok \in BOOLEAN : D_Local(ok)

Spec == Init /\ [][Next]_vars

\* The steps of job k's background task.
JobNext(k) ==
    \/ P_Start(k)
    \/ P_WriteCode(k)
    \/ \E t \in {"ok", "nocreate", "nowrite"} : P_RunStart(k, t)
    \/ \E d \in Durations, rc \in {0, 1}, e \in Stderrs, found \in BOOLEAN, u \in BOOLEAN :
          P_RunFinish(k, d, rc, e, found, u)
    \/ \E r \in UploadReturns \cup {"raise"} : P_Upload(k, r)
    \/ \E ok \in BOOLEAN : P_UpdateCompleted(k, ok)
    \/ P_OpenCompleted(k)
    \/ P_WriteCompleted(k)
    \/ \E ok \in BOOLEAN : P_Cleanup(k, ok)
    \/ \E ok \in BOOLEAN : P_UpdateFailed(k, ok)
    \/ P_OpenFailed(k)
    \/ P_WriteFailed(k)
    \/ \E ok \in BOOLEAN : H_Update(k, ok)
    \/ H_Open(k)
    \/ H_Write(k)

\* Spec, with the background task of every submitted job scheduled and every
\* call it makes (code generation, the subprocess under its timeout, the
\* remote store, the filesystem) returning or raising: a job that has a next
\* step takes it.
SpecLive == Init /\ [][Next]_vars /\ \A k \in Jobs : WF_vars(JobNext(k))

\* Two jobs at the same time, with status queries and deletes for either of
\* them.  The renderer exits 0 with or without a Scene.mp4, and the remote
\* updates of the failure paths go through.
NextPair ==
    \/ \E ok \in BOOLEAN : GenerateAnother(ok)
    \/ \E k \in Jobs : P_Start(k)
    \/ \E k \in Jobs : P_WriteCode(k)
    \/ \E k \in Jobs : P_RunStart(k, "ok")
    \/ \E k \in Jobs, found \in BOOLEAN : P_RunFinish(k, 1, 0, "", found, TRUE)
    \/ \E k \in Jobs, r \in {RelPath, "raise"} : P_Upload(k, r)
    \/ \E k \in Jobs, ok \in BOOLEAN : P_UpdateCompleted(k, ok)
    \/ \E k \in Jobs : P_OpenCompleted(k)
    \/ \E k \in Jobs : P_WriteCompleted(k)
    \/ \E k \in Jobs, ok \in BOOLEAN : P_Cleanup(k, ok)
    \/ \E k \in Jobs : P_UpdateFailed(k, TRUE)
    \/ \E k \in Jobs : P_OpenFailed(k)
    \/ \E k \in Jobs : P_WriteFailed(k)
    \/ \E k \in Jobs : H_Update(k, TRUE)
    \/ \E k \in Jobs : H_Open(k)
    \/ \E k \in Jobs : H_Write(k)
    \/ \E kind \in {"status", "delete"}, id \in JobIds : StartRequest(kind, id)
    \/ G_Remote
    \/ G_LocalCheck
    \/ G_Read
    \/ G_Resolve
    \/ \E r \in {UrlVal, "raise"} : G_Upload(r)
    \/ G_Update(TRUE)
    \/ D_Remote
    \/ \E ok \in BOOLEAN : D_Local(ok)

SpecPair == Init /\ [][NextPair]_vars

-----------------------------------------------------------------------------
(* Vocabulary of the properties *)

\* generate accepted the submission of job k.
Submitted(k) == k <= nJobs /\ submitResp[k].code = 200

\* A delete request for job k has removed the remote record and has its
\* local removal still to do.
Deleting(k) == req.kind = "delete" /\ req.id = Uuid(k) /\ req.pc = "local"

\* No explicit delete has touched job k.
Undeleted(k) == ~delOk[k] /\ ~Deleting(k)

\* The handler of the current request is at work (the identifier passed the
\* match) and this step is a step of it.
HandlerStep == req.pc \notin {"idle", "done"} /\ req' # req

\* The handler of the current request answers in this step.
Answers == HandlerStep /\ req'.pc = "done"

StatusAnswered == req.kind = "status" /\ req.pc = "done"

-----------------------------------------------------------------------------
(* C1 *)

\* C1: whenever the remote record, the local status record or a status
\* response says completed, the artifact reference with it is present and
\* non-empty, whatever upload_to_supabase returned.
C1_CompletedHasArtifact ==
    /\ \A k \in Jobs :
          /\ remote[k].ex /\ remote[k].status = "completed" => Truthy(remote[k].url)
          /\ fs[k].status.ex /\ fs[k].status.head = "completed" => Truthy(fs[k].status.body)
    /\ StatusAnswered /\ req.resp.status = "completed" => Truthy(req.resp.ref)

-----------------------------------------------------------------------------
(* C2 *)

\* C2: every job recorded as failed has a non-empty failure message, and its
\* workspace holds code.py as long as the job was not explicitly deleted.
C2_FailedHasMessageAndCode ==
    \A k \in Jobs :
       /\ remote[k].ex /\ remote[k].status = "failed" => Truthy(remote[k].message)
       /\ fs[k].status.ex /\ fs[k].status.head = "failed" => fs[k].status.body # ""
       /\ /\ \/ remote[k].ex /\ remote[k].status = "failed"
             \/ fs[k].status.ex /\ fs[k].status.head = "failed"
          /\ Undeleted(k)
          => fs[k].dir /\ fs[k].code

-----------------------------------------------------------------------------
(* C3 *)

\* C3: a status query or a delete for an identifier that is unknown, or whose
\* job an earlier delete removed with success, answers not-found, whatever
\* the job's background processing does in between.
C3_DeletedStaysNotFound ==
    [][Answers /\ req.kind \in {"status", "delete"}
         /\ (JobOf(req.id) = 0 \/ ~Submitted(JobOf(req.id)) \/ delOk[JobOf(req.id)])
       => req'.resp.code = 404]_vars

-----------------------------------------------------------------------------
(* C4 *)

\* C4: get_status asks the remote store first; a remote record is returned
\* as it is, whatever the local record says; the local record is looked at
\* only after the remote store returned none; and the answer is not-found
\* exactly when the remote store returned none and status.txt is not there.
C4_RemoteFirst ==
    [][HandlerStep /\ req.kind = "status" =>
         LET rec == RemoteOf(req.id) IN
         /\ req.pc = "remote" /\ rec.ex =>
               /\ req'.pc = "done"
               /\ req'.resp = Resp(200, rec.status,
                                   IF rec.message = NoneVal THEN "" ELSE rec.message,
                                   rec.url)
         /\ req'.pc = "local" => req.pc = "remote" /\ ~rec.ex
         /\ req'.pc = "read" => req.pc = "local"
         /\ req'.pc = "done" =>
               (req'.resp.code = 404 <=> req.pc = "local" /\ ~DirOf(req.id).status.ex)
      ]_vars

\* A status query was answered from the remote record while the local record
\* said something else.
C4_Witness ==
    /\ StatusAnswered /\ req.resp.code = 200 /\ JobOf(req.id) # 0
    /\ remote[JobOf(req.id)].ex /\ remote[JobOf(req.id)].status = req.resp.status
    /\ fs[JobOf(req.id)].status.ex /\ fs[JobOf(req.id)].status.head # req.resp.status

-----------------------------------------------------------------------------
(* C5 *)

\* The state a status query has resolved, from the remote record or from
\* status.txt, is completed, and this step answers the query.
ResolvesCompleted ==
    /\ Answers /\ req.kind = "status"
    /\ \/ req.pc = "remote" /\ RemoteOf(req.id).ex /\ RemoteOf(req.id).status = "completed"
       \/ req.pc = "read" /\ DirOf(req.id).status.ex /\ DirOf(req.id).status.head = "completed"
       \/ req.pc = "resolve"

\* C5 as claimed, for a job no delete has touched: a status query that
\* resolves completed, from the remote or from the local record, while the
\* artifact is missing from the local filesystem, answers failed with a
\* message and no artifact reference.
C5_DemotedWhenArtifactMissing ==
    [][ResolvesCompleted /\ ~(DirOf(req.id).dir /\ DirOf(req.id).video)
         /\ JobOf(req.id) # 0 /\ Undeleted(JobOf(req.id))
       => /\ req'.resp.status = "failed"
          /\ req'.resp.message # ""
          /\ req'.resp.ref = NoneVal]_vars

\* C5, amended: the demotion is the local path's.  A status query answered
\* from status.txt that says completed with a non-empty reference whose file
\* is missing under the render root answers failed with a non-empty message
\* and no artifact reference.
C5_LocalDemotion ==
    [][HandlerStep /\ req.kind = "status" /\ req.pc = "resolve"
         /\ ~FileExists(DirOf(req.id), req.st.message)
       => /\ req'.pc = "done"
          /\ req'.resp.code = 200
          /\ req'.resp.status = "failed"
          /\ req'.resp.message # ""
          /\ req'.resp.ref = NoneVal]_vars

\* A status query found no remote record, read completed from status.txt
\* and answered failed for the missing file.
C5_Witness ==
    /\ StatusAnswered /\ JobOf(req.id) # 0
    /\ req.resp.status = "failed" /\ req.resp.message = NotFoundAtMsg
    /\ ~remote[JobOf(req.id)].ex

-----------------------------------------------------------------------------
(* C6 *)

\* C6: for a job whose processing is over, a status query that follows one
\* that answered completed, with no delete in between, answers the same
\* {state, artifact reference}.
C6_StatusIdempotent ==
    [][Answers /\ req.kind = "status" /\ req.settled
         /\ last[JobOf(req.id)].status = "completed"
       => req'.resp.code = 200 /\ Pair(req'.resp) = last[JobOf(req.id)]]_vars

-----------------------------------------------------------------------------
(* C7 *)

\* C7: a request whose identifier has a character outside [0-9a-f-] is
\* answered 400 at once: its handler never gets to the remote store or to
\* the filesystem.
C7_MalformedRejected ==
    req.kind # "none" /\ ~WellFormed(req.id) => req.pc = "done" /\ req.resp.code = 400

-----------------------------------------------------------------------------
(* C8 *)

\* C8: when generate accepts a submission it answers pending, status.txt
\* says pending, and no step of process_rendering_job has run for the job.
C8_SubmitAnswersPending ==
    [][\A k \in Jobs :
          nJobs = k - 1 /\ nJobs' = k /\ submitResp'[k].code = 200
          => /\ submitResp'[k].status = "pending"
             /\ fs'[k].status = StatusFile("pending", "")
             /\ pc'[k] = "queued"
             /\ remote'[k] = NoRecord /\ ~fs'[k].code /\ proc'[k] = NoProc]_vars

\* A submission was accepted and its job has not started.
C8_Witness ==
    \E k \in Jobs : Submitted(k) /\ pc[k] = "queued" /\ submitResp[k].status = "pending"

-----------------------------------------------------------------------------
(* C9 *)

-----------------------------------------------------------------------------
(* C10 *)

\* Job k is recorded failed with message m and keeps its workspace.
FailedWith(k, m) ==
    /\ fs[k].dir /\ fs[k].code
    /\ fs[k].status = StatusFile("failed", m)
    /\ remote[k].ex => remote[k].status = "failed" /\ remote[k].message = m

\* C10: once processing is over, a timeout is recorded as failed with the
\* timeout notice, an exit 0 without output file as failed with the
\* no-MP4 notice, a non-zero exit as failed with the captured error stream,
\* and the workspace is retained in each case.
C10_FailureCausesDistinct ==
    \A k \in Jobs :
       Finished(k) /\ Undeleted(k)
       => /\ proc[k].out = "timeout" => FailedWith(k, TimeoutMsg)
          /\ proc[k].out = "zero_nofile" => FailedWith(k, NoMp4Msg)
          /\ proc[k].out = "nonzero" => FailedWith(k, proc[k].stderr)

-----------------------------------------------------------------------------
(* C11 *)

\* C11: delete_job answers success or not-found, and not-found exactly when
\* the remote store had no record to remove and the job directory is not
\* there when the handler looks for it: a delete that finds the workspace
\* never answers not-found.
C11_DeleteNotFoundOnlyIfAbsent ==
    [][Answers /\ req.kind = "delete"
       => /\ req'.resp.code \in {200, 404}
          /\ req'.resp.code = 404 <=> ~req.delStatus /\ ~DirOf(req.id).dir]_vars

-----------------------------------------------------------------------------
(* C12 *)

\* C12: neither a remote record nor a status response carries a non-empty
\* artifact reference together with a state other than completed.
C12_ArtifactOnlyWhenCompleted ==
    /\ \A k \in Jobs :
          remote[k].ex /\ Truthy(remote[k].url) => remote[k].status = "completed"
    /\ StatusAnswered /\ req.resp.code = 200 /\ Truthy(req.resp.ref)
          => req.resp.status = "completed"

-----------------------------------------------------------------------------
(* C13 *)

\* C13: the workspace of a submitted job exists exactly as long as the job
\* was neither explicitly deleted nor cleaned up after its success: a
\* workspace that is gone is never created again, a workspace goes away only
\* by delete_job's removal or by the clean-up after success, and that
\* clean-up always leaves the job without its workspace.
C13_WorkspaceLifetime ==
    [][\A k \in Jobs :
          /\ Submitted(k) /\ ~fs[k].dir => ~fs'[k].dir
          /\ fs[k].dir /\ ~fs'[k].dir => Deleting(k) \/ pc[k] = "cleanup"
          /\ pc[k] = "cleanup" /\ pc'[k] = "done" => ~fs'[k].dir]_vars

-----------------------------------------------------------------------------
(* C14 *)

\* The steps of process_rendering_job's success path, in the order of the
\* code, and the places where a failure leaves that path.
StepOrder ==
    <<"queued", "gen", "run", "render", "upload", "ok_update", "ok_open",
      "ok_write", "cleanup">>
StepIndex(p) == CHOOSE i \in 1..Len(StepOrder) : StepOrder[i] = p
OnSuccessPath(p) == \E i \in 1..Len(StepOrder) : StepOrder[i] = p

\* C14: within one job the steps happen one after the other in the order
\* generate, persist code.py, execute the renderer, locate the artifact,
\* upload, mirror to the remote store, write the final status record, delete
\* the workspace: each step of the job moves it to the next step of that
\* order (or off it, on a failure), every effect belongs to its own step,
\* and the job deletes the workspace only after the remote record and the
\* status record were written as completed.
C14_StepsInOrder ==
    [][\A k \in Jobs : pc'[k] # pc[k] /\ pc[k] # "none" =>
          /\ OnSuccessPath(pc'[k]) =>
                OnSuccessPath(pc[k]) /\ StepIndex(pc'[k]) = StepIndex(pc[k]) + 1
          /\ pc'[k] = "done" => pc[k] \in {"cleanup", "fail_write", "h_write"}
          /\ ~fs[k].code /\ fs'[k].code => pc[k] = "gen" /\ proc[k].out = "none"
          /\ proc'[k].out # proc[k].out =>
                pc[k] \in {"run", "render"} /\ loc[k].url = NoneVal /\ ~remote[k].ex
          /\ ~fs[k].video /\ fs'[k].video => pc[k] = "render"
          /\ loc'[k].url # loc[k].url =>
                pc[k] = "upload" /\ proc[k].out = "zero_file" /\ loc[k].success
          /\ remote'[k] # remote[k] /\ remote'[k].status = "completed" =>
                pc[k] = "ok_update" /\ remote'[k].url = loc[k].url
          /\ fs'[k].status # fs[k].status /\ fs'[k].status.head = "completed" =>
                pc[k] = "ok_write"
          /\ proc'[k].cleanup # proc[k].cleanup \/ (fs[k].dir /\ ~fs'[k].dir) =>
                /\ pc[k] = "cleanup"
                /\ Undeleted(k) =>
                      /\ remote[k].ex /\ remote[k].status = "completed"
                      /\ fs[k].status.ex /\ fs[k].status.head = "completed"
                      /\ fs[k].code /\ fs[k].video]_vars

\* A job is about to delete its workspace: code.py, the artifact, the remote
\* record and the final status record are all there.
C14_Witness ==
    \E k \in Jobs :
       /\ pc[k] = "cleanup" /\ Undeleted(k)
       /\ fs[k].code /\ fs[k].video /\ fs[k].status.head = "completed"
       /\ remote[k].ex /\ remote[k].status = "completed" /\ remote[k].url = UrlVal

-----------------------------------------------------------------------------
(* C15 *)

\* process_rendering_job has started for job k and has recorded neither
\* completed nor failed yet.
InProgress(k) ==
    pc[k] \in {"gen", "run", "render", "upload", "ok_update", "fail_update"}

\* C15: while a job is being processed its status record says processing,
\* and so does every status query answered in that interval.
C15_ProcessingRecorded ==
    /\ \A k \in Jobs :
          InProgress(k) /\ Undeleted(k) =>
             fs[k].status.ex /\ fs[k].status.head = "processing"
    /\ StatusAnswered /\ JobOf(req.id) # 0 /\ InProgress(JobOf(req.id))
          /\ req.resp.code = 200
          => req.resp.status \in {"processing", "completed", "failed"}

-----------------------------------------------------------------------------
(* C16 *)

Terminal == {"completed", "failed"}

\* C16: completed and failed are terminal.  A remote record that says
\* completed or failed keeps saying so as long as it is there, and no step
\* of process_rendering_job rewrites a status.txt that says completed or
\* failed into anything else.
C16_TerminalStatesStay ==
    [][\A k \in Jobs :
          /\ remote[k].ex /\ remote[k].status \in Terminal /\ remote'[k].ex
                => remote'[k].status = remote[k].status
          /\ fs[k].status.ex /\ fs[k].status.head \in Terminal
                /\ pc'[k] # pc[k] /\ fs'[k].status.ex
                => fs'[k].status.head = fs[k].status.head]_vars

-----------------------------------------------------------------------------
(* C17 *)

\* The local outcome the render decided for job k: completed for a located
\* artifact (until the clean-up after success removes the record with the
\* workspace), failed with run_manim's message otherwise.
RenderOutcomeRecorded(k) ==
    IF loc[k].success
    THEN IF fs[k].status.ex
         THEN fs[k].status.head = "completed"
         ELSE proc[k].cleanup = "removed"
    ELSE fs[k].status = StatusFile("failed", loc[k].result)

\* C17: when upload_to_supabase or update_job_data raises, the failure is
\* only logged: once processing is over, the local status record says what
\* the render decided, as it does when the remote store works.
C17_RemoteFailureKeepsLocalOutcome ==
    \A k \in Jobs :
       Finished(k) /\ Undeleted(k) /\ proc[k].out # "none"
          /\ loc[k].exc \in {"", SupabaseErr}
       => RenderOutcomeRecorded(k)

-----------------------------------------------------------------------------
(* C18 *)

\* C18: a failure in any step of process_rendering_job, the steps of its
\* except clause included, stays inside it: the function never ends by
\* raising, and when it has returned after a failure the local status
\* record says failed with the exception text.
C18_FailuresContained ==
    \A k \in Jobs :
       /\ pc[k] # "crashed"
       /\ pc[k] = "done" /\ loc[k].exc # "" /\ Undeleted(k)
             => fs[k].status = StatusFile("failed", loc[k].exc)

-----------------------------------------------------------------------------
(* C19 *)

\* C19: once run_manim has returned, on whatever path, the temporary source
\* file it created is gone, unless its removal was attempted and failed
\* (which is logged): removal is attempted when temp_path was assigned.
C19_TempFileRemoved ==
    \A k \in Jobs :
       proc[k].out # "none" /\ tmp[k] = "present" => loc[k].tempPath

-----------------------------------------------------------------------------
(* C20 *)

\* C20: in the local-record path of get_status, once the record resolved
\* completed with its artifact there, the re-upload and the remote update
\* are attempted, and whatever comes of them (no URL, or an exception of
\* upload_to_supabase or update_job_data) the query is answered completed
\* with the artifact reference, never with an error.
C20_ReuploadFailureNotSurfaced ==
    [][HandlerStep /\ req.kind = "status" /\ req.pc \in {"upload", "update"}
       => /\ req.pc = "upload" => req'.pc \in {"update", "done"}
          /\ req'.pc = "done" => req'.resp = Resp(200, "completed", "", req.st.message)]_vars

-----------------------------------------------------------------------------
(* C21 *)

\* This step is a step of job j's submission or processing.
JobStep(j) == pc'[j] # pc[j] \/ submitResp'[j] # submitResp[j]

\* This step is a step of a request (status query with its read-repair, code
\* query, delete) for an identifier other than job k's.
RequestStepNotFor(k) == req' # req /\ req'.id # Uuid(k)

\* C21: jobs do not interfere.  No step of another job's processing, and no
\* step of a status query, read-repair or delete for another identifier,
\* changes anything under job k's directory, job k's remote record, or what
\* job k's own processing has got to.
C21_JobsDoNotInterfere ==
    [][\A k \in Jobs :
          (\E j \in Jobs \ {k} : JobStep(j)) \/ RequestStepNotFor(k)
          => /\ fs'[k] = fs[k] /\ remote'[k] = remote[k]
             /\ pc'[k] = pc[k] /\ loc'[k] = loc[k] /\ proc'[k] = proc[k]
             /\ tmp'[k] = tmp[k] /\ delOk'[k] = delOk[k] /\ last'[k] = last[k]
             /\ seenFailed'[k] = seenFailed[k]]_vars

\* Two jobs at the same time: one was deleted while the other, still being
\* processed, has its workspace and its code.py.
C21_Witness ==
    \E j \in Jobs, k \in Jobs :
       /\ j # k /\ Submitted(j) /\ Submitted(k)
       /\ delOk[j] /\ ~fs[j].dir
       /\ InProgress(k) /\ fs[k].dir /\ fs[k].code

-----------------------------------------------------------------------------
(* C22 *)

\* C22: a status query for a job that was submitted and never deleted is
\* answered from the remote lookup, the local existence check or the local
\* read with the job's state, never with not-found or an internal error,
\* however its steps interleave with the job's processing.
C22_StatusNeverNotFoundOrError ==
    [][Answers /\ req.kind = "status"
         /\ req.pc \in {"remote", "local", "read", "resolve"}
         /\ JobOf(req.id) # 0 /\ Submitted(JobOf(req.id)) /\ Undeleted(JobOf(req.id))
       => req'.resp.code = 200]_vars

-----------------------------------------------------------------------------
(* C23 *)

\* C23: what a client sees only moves towards success.  For a job with no
\* delete in between, no status query answers completed after an earlier
\* status query for the job answered failed.
C23_NoCompletedAfterFailed ==
    [][Answers /\ req.kind = "status" /\ JobOf(req.id) # 0
         /\ seenFailed[JobOf(req.id)] /\ Undeleted(JobOf(req.id))
       => ~(req'.resp.code = 200 /\ req'.resp.status = "completed")]_vars

-----------------------------------------------------------------------------
(* C24 *)

\* The remote record or the local status record of job k says completed or
\* failed, and neither says pending.
TerminalRecorded(k) ==
    /\ \/ remote[k].ex /\ remote[k].status \in Terminal
       \/ fs[k].status.ex /\ fs[k].status.head \in Terminal
    /\ remote[k].ex => remote[k].status # "pending"
    /\ fs[k].status.ex => fs[k].status.head # "pending"

\* C24 as claimed, its second half: whenever process_rendering_job is over
\* for a job, the job's remote record or local status record says completed
\* or failed.
C24_TerminalRecordedAtEnd ==
    \A k \in Jobs : Finished(k) => TerminalRecorded(k)

\* C24, amended: every submitted job's process_rendering_job comes to its
\* end, and when it is over for a job that no delete request has touched,
\* the job's remote record or local status record says completed or failed,
\* never pending.
C24_EventuallyTerminal ==
    /\ [](\A k \in Jobs : Finished(k) /\ Undeleted(k) => TerminalRecorded(k))
    /\ \A k \in Jobs : Submitted(k) ~> Finished(k)

\* A job timed out and is recorded failed, remotely and locally.
C24_Witness ==
    \E k \in Jobs :
       /\ pc[k] = "done" /\ Undeleted(k) /\ proc[k].out = "timeout"
       /\ remote[k].ex /\ remote[k].status = "failed"
       /\ fs[k].status = StatusFile("failed", TimeoutMsg)

====
